---- MODULE Spec2Model ----
(***************************************************************************)
(* Model of the mortgage calculator's amortization engine                  *)
(* (src/src/lib/mortgageCalculations.ts) and of the break-even card that   *)
(* displays its results.                                                   *)
(*                                                                         *)
(* JavaScript numbers are modelled as exact rationals <<n, d>> (d > 0, in  *)
(* lowest terms) extended with the three non-finite values of IEEE-754:    *)
(* NaN = <<0, 0>>, +Infinity = <<1, 0>>, -Infinity = <<-1, 0>>.  The       *)
(* arithmetic follows the IEEE rules for the non-finite values (0/0 = NaN, *)
(* x/0 = +-Infinity, every comparison with NaN is false).  Rounding of     *)
(* finite results to 53 bits and the sign of zero are not modelled.        *)
(***************************************************************************)
EXTENDS Integers, Sequences, FiniteSets, TLC

(***************************************************************************)
(* Numbers                                                                 *)
(***************************************************************************)
NaN == <<0, 0>>
PosInf == <<1, 0>>
NegInf == <<-1, 0>>
Zero == <<0, 1>>
One == <<1, 1>>

\* undefined (an optional parameter that was not passed, a field not in use)
Absent == <<>>

Abs(i) == IF i < 0 THEN -i ELSE i

Sgn(i) == IF i < 0 THEN -1 ELSE IF i > 0 THEN 1 ELSE 0

RECURSIVE GCD(_, _)
GCD(a, b) == IF b = 0 THEN a ELSE GCD(b, a % b)

\* the number n/d in canonical form; a zero denominator gives NaN or an infinity
Norm(n, d) ==
  IF d = 0 THEN <<Sgn(n), 0>>
  ELSE LET g == GCD(Abs(n), Abs(d))
       IN <<Sgn(d) * (n \div g), Abs(d) \div g>>

Num(i) == <<i, 1>>

IsNaN(x) == x = NaN

IsFinite(x) == x[2] # 0

\* Op applied to the values of x and y (the operands are evaluated once)
Apply1(Op(_), x) == CHOOSE r \in {Op(v) : v \in {x}} : TRUE

Apply2(Op(_, _), x, y) == CHOOSE r \in {Op(v[1], v[2]) : v \in {<<x, y>>}} : TRUE

NegV(x) == <<-x[1], x[2]>>

\* -x
Neg(x) == Apply1(NegV, x)

AddV(x, y) ==
  IF IsNaN(x) \/ IsNaN(y) THEN NaN
  ELSE IF ~IsFinite(x) /\ ~IsFinite(y) THEN (IF x = y THEN x ELSE NaN)
  ELSE IF ~IsFinite(x) THEN x
  ELSE IF ~IsFinite(y) THEN y
  ELSE LET g == GCD(x[2], y[2])
       IN Norm(x[1] * (y[2] \div g) + y[1] * (x[2] \div g), (x[2] \div g) * y[2])

\* x + y
Add(x, y) == Apply2(AddV, x, y)

\* x - y
Sub(x, y) == Add(x, Neg(y))

MulV(x, y) ==
  IF IsNaN(x) \/ IsNaN(y) THEN NaN
  ELSE IF ~IsFinite(x) \/ ~IsFinite(y) THEN <<Sgn(x[1]) * Sgn(y[1]), 0>>
  ELSE IF x[1] = 0 \/ y[1] = 0 THEN Zero
  ELSE LET g1 == GCD(Abs(x[1]), y[2])
           g2 == GCD(Abs(y[1]), x[2])
       IN Norm((x[1] \div g1) * (y[1] \div g2), (x[2] \div g2) * (y[2] \div g1))

\* x * y
Mul(x, y) == Apply2(MulV, x, y)

\* 1/x: 1/0 is +Infinity, 1/Infinity is 0
RecipV(x) ==
  IF IsNaN(x) THEN NaN
  ELSE IF ~IsFinite(x) THEN Zero
  ELSE IF x[1] = 0 THEN PosInf
  ELSE <<Sgn(x[1]) * x[2], Abs(x[1])>>

\* x / y
Div(x, y) == Mul(x, Apply1(RecipV, y))

LeqV(x, y) ==
  /\ ~IsNaN(x)
  /\ ~IsNaN(y)
  /\ IF ~IsFinite(x) /\ ~IsFinite(y) THEN x[1] <= y[1]
     ELSE IF ~IsFinite(x) THEN x[1] < 0
     ELSE IF ~IsFinite(y) THEN y[1] > 0
     ELSE LET g == GCD(x[2], y[2])
          IN x[1] * (y[2] \div g) <= y[1] * (x[2] \div g)

\* x <= y, false when either side is NaN
Leq(x, y) == Apply2(LeqV, x, y)

LtV(x, y) == LeqV(x, y) /\ x # y

\* x < y, false when either side is NaN
Lt(x, y) == Apply2(LtV, x, y)

\* x > y, false when either side is NaN
Gt(x, y) == Lt(y, x)

MathMaxV(x, y) ==
  IF IsNaN(x) \/ IsNaN(y) THEN NaN
  ELSE IF LeqV(x, y) THEN y ELSE x

\* Math.max(x, y)
MathMax(x, y) == Apply2(MathMaxV, x, y)

MathCeilV(x) ==
  IF ~IsFinite(x) THEN x
  ELSE Num(-((-x[1]) \div x[2]))

\* Math.ceil(x)
MathCeil(x) == Apply1(MathCeilV, x)

RECURSIVE MathPowV(_, _)
MathPowV(x, n) == IF n = 0 THEN One ELSE MulV(x, MathPowV(x, n - 1))

\* Math.pow(x, n) for an integer n >= 0; Math.pow(x, 0) is 1 for every x
MathPow(x, n) == Apply2(MathPowV, x, n)

\* v without the "|| 0": undefined turns into NaN in the subtraction
OrZero_Missing(v) == IF v = Absent THEN NaN ELSE v

\* v || 0 : undefined, 0 and NaN are falsy
OrZero(v) == IF v = Absent \/ v = Zero \/ v = NaN THEN Zero ELSE v

(***************************************************************************)
(* The engine: src/src/lib/mortgageCalculations.ts                         *)
(***************************************************************************)
\* the payment formula failing on a zero denominator instead of dividing
calculateMonthlyPayment_Guarded(principal, annualRate, termMonths) ==
  LET monthlyRate == Div(Div(annualRate, Num(12)), Num(100))
      numerator == Mul(Mul(principal, monthlyRate),
                       MathPow(Add(One, monthlyRate), termMonths))
      denominator == Sub(MathPow(Add(One, monthlyRate), termMonths), One)
  IN IF denominator = Zero THEN Absent ELSE Div(numerator, denominator)

\* the payment formula with the "- 1" of the denominator left out
calculateMonthlyPayment_NoMinusOne(principal, annualRate, termMonths) ==
  LET monthlyRate == Div(Div(annualRate, Num(12)), Num(100))
      numerator == Mul(Mul(principal, monthlyRate),
                       MathPow(Add(One, monthlyRate), termMonths))
      denominator == MathPow(Add(One, monthlyRate), termMonths)
  IN Div(numerator, denominator)

calculateMonthlyPayment(principal, annualRate, termMonths) ==
  LET monthlyRate == Div(Div(annualRate, Num(12)), Num(100))
      numerator == Mul(Mul(principal, monthlyRate),
                       MathPow(Add(One, monthlyRate), termMonths))
      denominator == Sub(MathPow(Add(One, monthlyRate), termMonths), One)
  IN Div(numerator, denominator)

\* the loop with the break taken before the period's interest is added
RECURSIVE TotalInterestLoop_BreakFirst(_, _, _, _, _, _)
TotalInterestLoop_BreakFirst(m, bal, totalInterest, monthlyRate, termMonths, monthlyPayment) ==
  IF m > termMonths THEN totalInterest
  ELSE LET interestPayment == Mul(bal, monthlyRate)
           principalPayment == Sub(monthlyPayment, interestPayment)
           newBalance == Sub(bal, principalPayment)
       IN IF Leq(newBalance, Zero) THEN totalInterest
          ELSE TotalInterestLoop_BreakFirst(m + 1, newBalance,
                                            Add(totalInterest, interestPayment),
                                            monthlyRate, termMonths, monthlyPayment)

\* the for loop of calculateTotalInterest, entered at the loop test
RECURSIVE TotalInterestLoop(_, _, _, _, _, _)
TotalInterestLoop(m, bal, totalInterest, monthlyRate, termMonths, monthlyPayment) ==
  IF m > termMonths THEN totalInterest
  ELSE LET interestPayment == Mul(bal, monthlyRate)
           principalPayment == Sub(monthlyPayment, interestPayment)
           newTotal == Add(totalInterest, interestPayment)
           newBalance == Sub(bal, principalPayment)
       IN IF Leq(newBalance, Zero) THEN newTotal
          ELSE TotalInterestLoop(m + 1, newBalance, newTotal, monthlyRate,
                                 termMonths, monthlyPayment)

calculateTotalInterest(principal, annualRate, termMonths, monthlyPayment) ==
  LET monthlyRate == Div(Div(annualRate, Num(100)), Num(12))
  IN TotalInterestLoop(1, principal, Zero, monthlyRate, termMonths, monthlyPayment)

\* the recast with the lump sum added to the principal
calculateRecastPayment_Added(principal, annualRate, termMonths, extraPayment) ==
  LET newPrincipal == Add(principal, OrZero(extraPayment))
  IN calculateMonthlyPayment(newPrincipal, annualRate, termMonths)

calculateRecastPayment(principal, annualRate, termMonths, extraPayment) ==
  LET newPrincipal == Sub(principal, OrZero(extraPayment))
  IN calculateMonthlyPayment(newPrincipal, annualRate, termMonths)

\* the break-even count rounded down
calculateBreakEvenMonths_Floor(refinanceCosts, currentMonthlyPayment, newMonthlyPayment) ==
  LET monthlySavings == Sub(currentMonthlyPayment, newMonthlyPayment)
  IN Neg(MathCeil(Neg(Div(refinanceCosts, monthlySavings))))

calculateBreakEvenMonths(refinanceCosts, currentMonthlyPayment, newMonthlyPayment) ==
  LET monthlySavings == Sub(currentMonthlyPayment, newMonthlyPayment)
  IN MathCeil(Div(refinanceCosts, monthlySavings))

\* monthlyRate of calculateAmortizationSchedule
ScheduleMonthlyRate(annualRate) == Div(Div(annualRate, Num(12)), Num(100))

\* the balance after a payment that bears no interest
ScheduleNewBalance_NoInterest(bal, monthlyRate, monthlyPayment) ==
  Sub(bal, monthlyPayment)

\* the balance after the payment of one period of calculateAmortizationSchedule
ScheduleNewBalance(bal, monthlyRate, monthlyPayment) ==
  Sub(bal, Sub(monthlyPayment, Mul(bal, monthlyRate)))

\* the entry with a close-out payment: the last payment is cut to what is owed
ScheduleEntry_CloseOut(m, bal, monthlyRate, monthlyPayment) ==
  LET interest == Mul(bal, monthlyRate)
      owed == Add(bal, interest)
      paid == IF Leq(owed, monthlyPayment) THEN owed ELSE monthlyPayment
  IN [month |-> m,
      payment |-> paid,
      principal |-> Sub(paid, interest),
      interest |-> interest,
      remainingBalance |-> MathMax(Zero, ScheduleNewBalance(bal, monthlyRate, monthlyPayment))]

\* the entry with a 0-based month
ScheduleEntry_ZeroBased(m, bal, monthlyRate, monthlyPayment) ==
  LET interest == Mul(bal, monthlyRate)
      principalPayment == Sub(monthlyPayment, interest)
  IN [month |-> m - 1,
      payment |-> monthlyPayment,
      principal |-> principalPayment,
      interest |-> interest,
      remainingBalance |-> MathMax(Zero, ScheduleNewBalance(bal, monthlyRate, monthlyPayment))]

\* the entry pushed for period m, bal being the balance before the payment
ScheduleEntry(m, bal, monthlyRate, monthlyPayment) ==
  LET interest == Mul(bal, monthlyRate)
      principalPayment == Sub(monthlyPayment, interest)
  IN [month |-> m,
      payment |-> monthlyPayment,
      principal |-> principalPayment,
      interest |-> interest,
      remainingBalance |-> MathMax(Zero, ScheduleNewBalance(bal, monthlyRate, monthlyPayment))]

\* if (balance <= 0) break;
ScheduleBreak(bal) == Leq(bal, Zero)

\* the loop test with one period too many
ScheduleLoopTest_OneMore(m, termMonths) == m <= termMonths + 1

\* month <= termMonths
ScheduleLoopTest(m, termMonths) == m <= termMonths

\* the for loop of calculateAmortizationSchedule, from month m on
RECURSIVE ScheduleLoop(_, _, _, _, _, _)
ScheduleLoop(m, bal, sched, monthlyRate, termMonths, monthlyPayment) ==
  IF ~ScheduleLoopTest(m, termMonths) THEN sched
  ELSE LET newBalance == ScheduleNewBalance(bal, monthlyRate, monthlyPayment)
           pushed == Append(sched, ScheduleEntry(m, bal, monthlyRate, monthlyPayment))
       IN IF ScheduleBreak(newBalance) THEN pushed
          ELSE ScheduleLoop(m + 1, newBalance, pushed, monthlyRate, termMonths,
                            monthlyPayment)

\* calculateAmortizationSchedule as the value it returns
calculateAmortizationSchedule(principal, annualRate, termMonths, monthlyPayment) ==
  ScheduleLoop(1, principal, <<>>, ScheduleMonthlyRate(annualRate), termMonths,
               monthlyPayment)

(***************************************************************************)
(* The break-even card of the results view                                 *)
(***************************************************************************)
\* isWorthRefinancing = monthsPlanned > refinanceBreakEven
isWorthRefinancing(plannedStayYears, refinanceBreakEven) ==
  Gt(Num(plannedStayYears * 12), refinanceBreakEven)

(***************************************************************************)
(* calculateMortgageOptions: src/src/components/MortgageCalculator.tsx     *)
(***************************************************************************)
REFINANCE_CLOSING_COSTS_PERCENTAGE == <<3, 100>>

\* !v : undefined, 0 and NaN are falsy
Falsy(v) == v = Absent \/ v = Zero \/ v = NaN

\* Object.values(fees || {}).reduce((sum, fee) => sum + (fee || 0), 0)
detailedClosingCosts(fees) ==
  Add(Add(Add(Add(Add(Zero, OrZero(fees.titleInsurance)),
                  OrZero(fees.appraisalFee)),
              OrZero(fees.originationFee)),
          OrZero(fees.recordingFees)),
      OrZero(fees.otherFees))

\* the closing costs with a flat estimate that overrides the detailed fees
refinanceClosingCosts_FlatFirst(v) ==
  LET flat == v.estimatedClosingCosts
      detailed == detailedClosingCosts(v.refinanceClosingCosts)
  IN IF ~Falsy(flat) THEN flat
     ELSE IF Gt(detailed, Zero) THEN detailed
     ELSE Mul(v.currentBalance, REFINANCE_CLOSING_COSTS_PERCENTAGE)

\* let refinanceClosingCosts, after the two if statements
refinanceClosingCosts(v) ==
  LET flat == IF Falsy(v.estimatedClosingCosts)
                THEN Mul(v.currentBalance, REFINANCE_CLOSING_COSTS_PERCENTAGE)
                ELSE v.estimatedClosingCosts
      detailed == detailedClosingCosts(v.refinanceClosingCosts)
  IN IF Gt(detailed, Zero) THEN detailed ELSE flat

\* the finite number n / d rounded to cents, halves away from zero
RoundToCents(x) ==
  LET whole == Abs(x[1]) \div x[2]
      rest == Abs(x[1]) % x[2]
      cents == 100 * whole + (200 * rest + x[2]) \div (2 * x[2])
  IN Norm(Sgn(x[1]) * cents, 100)

\* currencyFormatter.format(x): the amount that the string it returns shows
currencyFormatter(x) == IF IsFinite(x) THEN RoundToCents(x) ELSE x

(***************************************************************************)
(* Inputs                                                                  *)
(***************************************************************************)
MaxTerm == 3
MaxStayYears == 2
\* the term that calculateMortgageOptions passes to the engine: 360 months in
\* the source, cut down here to a term whose numbers stay exact
DEFAULT_TERM_MONTHS == 3

Principals == {Num(-1000), Zero, Num(1000), Num(12000)}
AnnualRates == {Zero, Num(75), Num(100)}
Terms == 0..MaxTerm
\* caller-supplied payments: none, below the first interest, partial, full, over
Payments == {Zero, Num(10), Num(400), Num(1000), Num(20000)}
ExtraPayments == {Absent, Zero, Num(500), Num(1000), Num(2000)}
RefinanceCosts == {Zero, Num(1120), Num(10000)}
BreakEvenPayments == {Num(1900), Num(2000)}
\* the form: balances, rates, payments, flat estimates and fee breakdowns
CurrentBalances == {Num(1000), Num(1600)}
CurrentRates == {Num(75)}
\* a payment too small to amortize the loan, and one that pays it off at once
MonthlyPayments == {Num(10), Num(2000)}
NewRates == {Zero, Num(75)}
\* no lump sum, part of the balance, the whole balance, more than the balance
LumpSums == {Zero, Num(500), Num(1000), Num(2000)}
EstimatedClosingCosts == {Zero, Num(500)}
\* no fee, a fee in whole dollars, a fee with a fraction of a cent
FeeAmounts == {Zero, Num(300), <<2401, 8>>}
StayYears == 0..MaxStayYears

(***************************************************************************)
(* State                                                                   *)
(***************************************************************************)
VARIABLES
  fn,        \* the engine function called last ("none" before the first call)
  args,      \* the arguments of that call
  ret,       \* the number it returned (Absent for the schedule generator)
  pc,        \* calculateAmortizationSchedule: "idle", "loop", "returned"
  month,     \* its loop counter
  balance,   \* its running balance
  schedule,  \* its schedule array
  view,      \* the break-even card rendered from the results
  values,    \* the form values handed to calculateMortgageOptions last
  results,   \* the results state of the component
  calls,     \* the engine calls made by calculateMortgageOptions last
  scenarios,         \* the scenario list: id, name and data of each scenario
  activeScenarioId,  \* the id of the active scenario (0 is "")
  form,              \* form.getValues()
  isLoading,         \* true until the load effect has run
  storage,           \* localStorage under STORAGE_KEY
  event              \* the load or the scenario handler that ran last, the id
                     \* it was given and the scenario that was active when it
                     \* was called, if nothing else has happened since

scenarioVars == <<scenarios, activeScenarioId, form, isLoading, storage, event>>

vars == <<fn, args, ret, pc, month, balance, schedule, view, values, results, calls,
          scenarios, activeScenarioId, form, isLoading, storage, event>>

NoArgs ==
  [principal |-> Absent, annualRate |-> Absent, termMonths |-> 0,
   extraPayment |-> Absent, monthlyPayment |-> Absent,
   refinanceCosts |-> Absent, currentMonthlyPayment |-> Absent,
   newMonthlyPayment |-> Absent]

MortgageParams(p, a, n, e, mp) ==
  [NoArgs EXCEPT !.principal = p, !.annualRate = a, !.termMonths = n,
                 !.extraPayment = e, !.monthlyPayment = mp]

NoView ==
  [rendered |-> FALSE, plannedStayYears |-> 0, breakEven |-> Absent,
   isWorthRefinancing |-> FALSE]

defaultRefinanceClosingCosts ==
  [titleInsurance |-> Zero, appraisalFee |-> Zero, originationFee |-> Zero,
   recordingFees |-> Zero, otherFees |-> Zero]

\* values.refinanceClosingCosts of saved data without a fee breakdown: the
\* code reads {} in its place
NoRefinanceClosingCosts ==
  [titleInsurance |-> Absent, appraisalFee |-> Absent, originationFee |-> Absent,
   recordingFees |-> Absent, otherFees |-> Absent]

\* the defaultValues of the form
defaultValues ==
  [currentBalance |-> Zero, currentRate |-> Zero, monthlyPayment |-> Zero,
   newRate |-> Zero, lumpSum |-> Zero,
   estimatedClosingCosts |-> Zero,
   refinanceClosingCosts |-> defaultRefinanceClosingCosts]

\* useState<ResultsType>(null), and setResults(null)
NoResults ==
  [currentMonthlyPayment |-> Absent, currentTotalInterest |-> Absent,
   currentSchedule |-> <<>>,
   refinanceMonthlyPayment |-> Absent, refinanceTotalInterest |-> Absent,
   breakEven |-> Absent, closingCosts |-> Absent, refinanceSchedule |-> <<>>,
   recastMonthlyPayment |-> Absent, recastTotalInterest |-> Absent,
   recastSchedule |-> <<>>]

\* the fee breakdowns: none, all zero, one fee, two fees
FeeBreakdowns ==
  {NoRefinanceClosingCosts}
  \cup {[defaultRefinanceClosingCosts EXCEPT !.titleInsurance = t, !.otherFees = o] :
          t \in FeeAmounts, o \in FeeAmounts}

\* values that differ in the closing costs entered
ClosingCostFormValues ==
  [currentBalance : CurrentBalances, currentRate : CurrentRates,
   monthlyPayment : {Num(2000)},
   newRate : {Num(75)}, lumpSum : {Zero},
   estimatedClosingCosts : EstimatedClosingCosts,
   refinanceClosingCosts : FeeBreakdowns]

\* values that differ in the payment, the new rate and the lump sum
LoanFormValues ==
  [currentBalance : {Num(1000)}, currentRate : CurrentRates,
   monthlyPayment : MonthlyPayments,
   newRate : NewRates, lumpSum : LumpSums,
   estimatedClosingCosts : {Zero},
   refinanceClosingCosts : {defaultRefinanceClosingCosts}]

\* values that pass the validation of calculateMortgageOptions
CompleteFormValues == ClosingCostFormValues \cup LoanFormValues

\* values that fail it: the balance, the rate or the payment is still 0
IncompleteFormValues ==
  {[defaultValues EXCEPT !.currentRate = Num(75), !.monthlyPayment = Num(2000)],
   [defaultValues EXCEPT !.currentBalance = Num(1000), !.monthlyPayment = Num(2000)],
   [defaultValues EXCEPT !.currentBalance = Num(1000), !.currentRate = Num(75)]}

\* the values that calculateMortgageOptions is called with
FormValues == CompleteFormValues \cup IncompleteFormValues

(***************************************************************************)
(* Scenarios: src/src/components/MortgageCalculator.tsx, ScenarioTabs.tsx  *)
(***************************************************************************)
\* the most scenarios the list holds at a time
MaxScenarios == 2

\* what the user types into the form: a loan
TypedValues ==
  {[defaultValues EXCEPT !.currentBalance = Num(1000), !.currentRate = Num(75),
                         !.monthlyPayment = Num(2000), !.newRate = Num(75),
                         !.lumpSum = Num(1000)]}

\* the name a user gives a scenario; "Scenario n" is the number n
TypedName == 0

NoStorage == [saved |-> FALSE, scenarios |-> <<>>]

NoEvent == [handler |-> "none", id |-> 0, from |-> 0]

\* the component before its effects have run
Unmounted ==
  /\ scenarios = <<>>
  /\ activeScenarioId = 0
  /\ form = defaultValues
  /\ isLoading = TRUE
  /\ storage = NoStorage
  /\ event = NoEvent

\* a number after JSON.stringify and JSON.parse: NaN and the infinities come
\* back as null, undefined is left out
JSONNumber(x) == IF x = Absent THEN Absent ELSE IF IsFinite(x) THEN x ELSE Absent

\* the form values after JSON.stringify and JSON.parse
JSONData(d) ==
  [currentBalance |-> JSONNumber(d.currentBalance),
   currentRate |-> JSONNumber(d.currentRate),
   monthlyPayment |-> JSONNumber(d.monthlyPayment),
   newRate |-> JSONNumber(d.newRate),
   lumpSum |-> JSONNumber(d.lumpSum),
   estimatedClosingCosts |-> JSONNumber(d.estimatedClosingCosts),
   refinanceClosingCosts |->
     [titleInsurance |-> JSONNumber(d.refinanceClosingCosts.titleInsurance),
      appraisalFee |-> JSONNumber(d.refinanceClosingCosts.appraisalFee),
      originationFee |-> JSONNumber(d.refinanceClosingCosts.originationFee),
      recordingFees |-> JSONNumber(d.refinanceClosingCosts.recordingFees),
      otherFees |-> JSONNumber(d.refinanceClosingCosts.otherFees)]]

\* JSON.parse(JSON.stringify(scenarios))
JSONScenarios(list) ==
  [i \in 1..Len(list) |->
     [id |-> list[i].id, name |-> list[i].name, data |-> JSONData(list[i].data)]]

\* the save effect: localStorage.setItem(STORAGE_KEY, JSON.stringify(scenarios))
SaveEffect(list) == [saved |-> TRUE, scenarios |-> JSONScenarios(list)]

ScenarioIdsOf(list) == {list[i].id : i \in 1..Len(list)}

\* scenarios.find((s) => s.id === id)
FindScenario(list, id) == list[CHOOSE i \in 1..Len(list) : list[i].id = id]

\* uuidv4(): an id that no scenario of the list has
uuidv4(list) == CHOOSE id \in 1..(Len(list) + 1) : id \notin ScenarioIdsOf(list)

\* scenarios.map((s) => s.id === activeScenarioId ? {...s, data} : s), skipped
SaveCurrent_Skip(list, active, data) == list

\* scenarios.map((s) => s.id === activeScenarioId ? {...s, data} : s)
SaveCurrent(list, active, data) ==
  [i \in 1..Len(list) |->
     IF list[i].id = active THEN [list[i] EXCEPT !.data = data] ELSE list[i]]

\* scenarios.filter((s) => s.id !== id)
FilterOut(list, id) == SelectSeq(list, LAMBDA s : s.id # id)

\* the delete handler of the tabs without its test of the list length
CanDelete_Always(list) == TRUE

\* handleDelete: if (scenarios.length > 1)
CanDelete(list) == Len(list) > 1

\* the active id after a delete that leaves it where it was
ActiveAfterDelete_Keep(active, id, updatedScenarios) == active

\* if (id === activeScenarioId) setActiveScenarioId(updatedScenarios[0].id)
ActiveAfterDelete(active, id, updatedScenarios) ==
  IF id = active THEN updatedScenarios[1].id ELSE active

\* the parameter objects the functions are called with: MortgageParams, with
\* extraPayment (recast) or with monthlyPayment (interest, schedule)
ParamObjects ==
  {MortgageParams(p, a, n, e, Absent) :
     p \in Principals, a \in AnnualRates, n \in Terms, e \in ExtraPayments}
  \cup
  {MortgageParams(p, a, n, Absent, mp) :
     p \in Principals, a \in AnnualRates, n \in Terms, mp \in Payments}

\* the three arguments of calculateBreakEvenMonths
BreakEvenArgs ==
  {[NoArgs EXCEPT !.refinanceCosts = c, !.currentMonthlyPayment = cur,
                  !.newMonthlyPayment = new] :
     c \in RefinanceCosts, cur \in BreakEvenPayments, new \in BreakEvenPayments}

Init ==
  /\ fn = "none"
  /\ args \in ParamObjects \cup BreakEvenArgs
  /\ ret = Absent
  /\ pc = "idle"
  /\ month = 0
  /\ balance = Zero
  /\ schedule = <<>>
  /\ view = NoView
  /\ values = defaultValues
  /\ results = NoResults
  /\ calls = <<>>
  /\ Unmounted

\* a call of one of the four functions that return a number
Return(f, r) ==
  /\ pc # "loop"
  /\ fn' = f
  /\ ret' = r
  /\ pc' = "idle"
  /\ month' = 0
  /\ balance' = Zero
  /\ schedule' = <<>>
  /\ view' = NoView
  /\ UNCHANGED <<args, values, results, calls>>
  /\ UNCHANGED scenarioVars

CallMonthlyPayment ==
  /\ args.principal # Absent
  /\ Return("calculateMonthlyPayment",
            calculateMonthlyPayment(args.principal, args.annualRate, args.termMonths))

CallRecastPayment ==
  /\ args.principal # Absent
  /\ Return("calculateRecastPayment",
            calculateRecastPayment(args.principal, args.annualRate, args.termMonths,
                                   args.extraPayment))

CallTotalInterest ==
  /\ args.monthlyPayment # Absent
  /\ Return("calculateTotalInterest",
            calculateTotalInterest(args.principal, args.annualRate, args.termMonths,
                                   args.monthlyPayment))

CallBreakEvenMonths ==
  /\ args.refinanceCosts # Absent
  /\ Return("calculateBreakEvenMonths",
            calculateBreakEvenMonths(args.refinanceCosts, args.currentMonthlyPayment,
                                     args.newMonthlyPayment))

\* entry of calculateAmortizationSchedule: balance = principal, schedule = []
EnterSchedule(a) ==
  /\ pc # "loop"
  /\ fn' = "calculateAmortizationSchedule"
  /\ args' = a
  /\ ret' = Absent
  /\ pc' = "loop"
  /\ month' = 1
  /\ balance' = a.principal
  /\ schedule' = <<>>
  /\ view' = NoView
  /\ UNCHANGED <<values, results, calls>>
  /\ UNCHANGED scenarioVars

\* calculateAmortizationSchedule called with a payment the caller supplies
CallSchedule ==
  /\ args.monthlyPayment # Absent
  /\ EnterSchedule(args)

\* calculateAmortizationSchedule called, as calculateMortgageOptions does, with
\* the payment calculateMonthlyPayment returned for the same principal, rate
\* and term
CallScheduleComputed ==
  /\ fn = "calculateMonthlyPayment"
  /\ EnterSchedule([args EXCEPT !.monthlyPayment = ret])

\* one iteration of the for loop
ScheduleIter ==
  /\ pc = "loop"
  /\ ScheduleLoopTest(month, args.termMonths)
  /\ LET monthlyRate == ScheduleMonthlyRate(args.annualRate)
         newBalance == ScheduleNewBalance(balance, monthlyRate, args.monthlyPayment)
     IN /\ balance' = newBalance
        /\ schedule' = Append(schedule,
                              ScheduleEntry(month, balance, monthlyRate, args.monthlyPayment))
        /\ IF ScheduleBreak(newBalance)
             THEN pc' = "returned" /\ month' = month
             ELSE pc' = "loop" /\ month' = month + 1
  /\ UNCHANGED <<fn, args, ret, view, values, results, calls>>
  /\ UNCHANGED scenarioVars

\* the loop test fails: return schedule
ScheduleReturn ==
  /\ pc = "loop"
  /\ ~ScheduleLoopTest(month, args.termMonths)
  /\ pc' = "returned"
  /\ UNCHANGED <<fn, args, ret, month, balance, schedule, view, values, results, calls>>
  /\ UNCHANGED scenarioVars

\* the Break-even Analysis card renders results.refinance.breakEven
RenderBreakEven ==
  /\ fn = "calculateBreakEvenMonths"
  /\ \E y \in StayYears :
       view' = [rendered |-> TRUE, plannedStayYears |-> y, breakEven |-> ret,
                isWorthRefinancing |-> isWorthRefinancing(y, ret)]
  /\ UNCHANGED <<fn, args, ret, pc, month, balance, schedule, values, results, calls>>
  /\ UNCHANGED scenarioVars

\* one engine call: the function and its parameter object
EngineCall(f, a) == [fn |-> f, params |-> a]

\* what calculateMortgageOptions(values) computes: whether the values pass
\* the validation, the engine calls in the order of the code, the object
\* given to setResults, and the break-even call. The two payments and the
\* closing costs are computed once and then used, as in the code.
MortgageOptions(v) ==
  IF Falsy(v.currentBalance) \/ Falsy(v.currentRate) \/ Falsy(v.monthlyPayment)
    THEN [valid |-> FALSE, calls |-> <<>>, results |-> NoResults,
          breakEvenArgs |-> NoArgs, breakEvenMonths |-> Absent]
    ELSE
      CHOOSE options \in
        {LET current == MortgageParams(v.currentBalance, v.currentRate,
                                       DEFAULT_TERM_MONTHS, Absent, v.monthlyPayment)
             refinancePrincipal == Sub(v.currentBalance, OrZero(v.lumpSum))
             refinanceParams == MortgageParams(refinancePrincipal, v.newRate,
                                               DEFAULT_TERM_MONTHS, Absent, Absent)
             refinance == [refinanceParams EXCEPT
                             !.monthlyPayment = refinanceMonthlyPayment]
             breakEvenArgs == [NoArgs EXCEPT
                                 !.refinanceCosts = costs,
                                 !.currentMonthlyPayment = v.monthlyPayment,
                                 !.newMonthlyPayment = refinanceMonthlyPayment]
             recastParams == MortgageParams(v.currentBalance, v.currentRate,
                                            DEFAULT_TERM_MONTHS, v.lumpSum, Absent)
             recast == MortgageParams(Sub(v.currentBalance, v.lumpSum),
                                      v.currentRate, DEFAULT_TERM_MONTHS, Absent,
                                      recastMonthlyPayment)
         IN [valid |-> TRUE,
             calls |-> <<EngineCall("calculateTotalInterest", current),
                         EngineCall("calculateMonthlyPayment", refinanceParams),
                         EngineCall("calculateTotalInterest", refinance),
                         EngineCall("calculateBreakEvenMonths", breakEvenArgs),
                         EngineCall("calculateRecastPayment", recastParams),
                         EngineCall("calculateTotalInterest", recast),
                         EngineCall("calculateAmortizationSchedule", current),
                         EngineCall("calculateAmortizationSchedule", refinance),
                         EngineCall("calculateAmortizationSchedule", recast)>>,
             results |->
               [currentMonthlyPayment |-> currencyFormatter(v.monthlyPayment),
                currentTotalInterest |->
                  currencyFormatter(
                    calculateTotalInterest(v.currentBalance, v.currentRate,
                                           DEFAULT_TERM_MONTHS, v.monthlyPayment)),
                currentSchedule |->
                  calculateAmortizationSchedule(v.currentBalance, v.currentRate,
                                                DEFAULT_TERM_MONTHS, v.monthlyPayment),
                refinanceMonthlyPayment |-> currencyFormatter(refinanceMonthlyPayment),
                refinanceTotalInterest |->
                  currencyFormatter(
                    calculateTotalInterest(refinancePrincipal, v.newRate,
                                           DEFAULT_TERM_MONTHS,
                                           refinanceMonthlyPayment)),
                breakEven |-> breakEvenMonths,
                closingCosts |-> currencyFormatter(costs),
                refinanceSchedule |->
                  calculateAmortizationSchedule(refinancePrincipal, v.newRate,
                                                DEFAULT_TERM_MONTHS,
                                                refinanceMonthlyPayment),
                recastMonthlyPayment |-> currencyFormatter(recastMonthlyPayment),
                recastTotalInterest |->
                  currencyFormatter(
                    calculateTotalInterest(recast.principal, v.currentRate,
                                           DEFAULT_TERM_MONTHS, recastMonthlyPayment)),
                recastSchedule |->
                  calculateAmortizationSchedule(recast.principal, v.currentRate,
                                                DEFAULT_TERM_MONTHS,
                                                recastMonthlyPayment)],
             breakEvenArgs |-> breakEvenArgs,
             breakEvenMonths |-> breakEvenMonths] :
           costs \in {refinanceClosingCosts(v)},
           refinanceMonthlyPayment \in
             {calculateMonthlyPayment(Sub(v.currentBalance, OrZero(v.lumpSum)),
                                      v.newRate, DEFAULT_TERM_MONTHS)},
           recastMonthlyPayment \in
             {calculateRecastPayment(v.currentBalance, v.currentRate,
                                     DEFAULT_TERM_MONTHS, v.lumpSum)},
           breakEvenMonths \in
             {calculateBreakEvenMonths(
                refinanceClosingCosts(v), v.monthlyPayment,
                calculateMonthlyPayment(Sub(v.currentBalance, OrZero(v.lumpSum)),
                                        v.newRate, DEFAULT_TERM_MONTHS))}} : TRUE

\* MortgageOptions of the values that the scenarios hold, worked out once
MortgageOptionsOf ==
  [v \in TypedValues \cup {defaultValues} |-> MortgageOptions(v)] @@ <<>>

\* calculateMortgageOptions(values): the validation, the engine calls in the
\* order of the code, and setResults
calculateMortgageOptions(v) ==
  \E options \in {IF v \in DOMAIN MortgageOptionsOf
                    THEN MortgageOptionsOf[v] ELSE MortgageOptions(v)} :
     /\ values' = v
     /\ results' = options.results
     /\ calls' = options.calls
     /\ IF ~options.valid
          THEN UNCHANGED <<fn, args, ret, pc, month, balance, schedule, view>>
          ELSE \* the call whose result the break-even card renders
               /\ fn' = "calculateBreakEvenMonths"
               /\ args' = options.breakEvenArgs
               /\ ret' = options.breakEvenMonths
               /\ pc' = "idle"
               /\ month' = 0
               /\ balance' = Zero
               /\ schedule' = <<>>
               /\ view' = NoView

\* the submit handler of the form, with the values v that the schema accepts:
\* they are stored in the active scenario, saved, and calculated
onSubmit(v) ==
  /\ pc # "loop"
  /\ ~isLoading
  /\ scenarios' = SaveCurrent(scenarios, activeScenarioId, v)
  /\ storage' = SaveEffect(scenarios')
  /\ form' = v
  /\ calculateMortgageOptions(v)
  /\ event' = NoEvent
  /\ UNCHANGED <<activeScenarioId, isLoading>>

\* the form filled in and submitted
SubmitValues == \E v \in FormValues : onSubmit(v)

\* the form submitted as it stands
SubmitForm == onSubmit(form)

\* the load effect, followed by the save effect of the render it causes
LoadScenarios ==
  /\ isLoading
  /\ IF storage.saved
       THEN /\ scenarios' = storage.scenarios
            /\ IF Len(storage.scenarios) > 0
                 THEN /\ activeScenarioId' = storage.scenarios[1].id
                      /\ form' = storage.scenarios[1].data
                      /\ calculateMortgageOptions(storage.scenarios[1].data)
                 ELSE UNCHANGED <<activeScenarioId, form, fn, args, ret, pc, month,
                                  balance, schedule, view, values, results, calls>>
       ELSE /\ scenarios' = <<[id |-> uuidv4(<<>>), name |-> 1, data |-> defaultValues]>>
            /\ activeScenarioId' = scenarios'[1].id
            /\ UNCHANGED <<form, fn, args, ret, pc, month, balance, schedule, view,
                           values, results, calls>>
  /\ isLoading' = FALSE
  /\ storage' = SaveEffect(scenarios')
  /\ event' = [handler |-> "load", id |-> 0, from |-> 0]

\* the page is reloaded: the component starts over, local storage stays
Reload ==
  /\ ~isLoading
  /\ pc # "loop"
  /\ scenarios' = <<>>
  /\ activeScenarioId' = 0
  /\ form' = defaultValues
  /\ isLoading' = TRUE
  /\ event' = NoEvent
  /\ fn' = "none"
  /\ args' = NoArgs
  /\ ret' = Absent
  /\ pc' = "idle"
  /\ month' = 0
  /\ balance' = Zero
  /\ schedule' = <<>>
  /\ view' = NoView
  /\ values' = defaultValues
  /\ results' = NoResults
  /\ calls' = <<>>
  /\ UNCHANGED storage

\* the user changes the values in the form
EditForm ==
  /\ ~isLoading
  /\ \E v \in (TypedValues \cup {defaultValues}) \ {form} : form' = v
  /\ event' = NoEvent
  /\ UNCHANGED <<fn, args, ret, pc, month, balance, schedule, view, values, results,
                 calls, scenarios, activeScenarioId, isLoading, storage>>

\* handleScenarioAdd(cloneFrom); cloneFrom = 0 is the call without argument
handleScenarioAdd(cloneFrom) ==
  LET baseData == IF cloneFrom # 0
                    THEN (IF cloneFrom \in ScenarioIdsOf(scenarios)
                            THEN FindScenario(scenarios, cloneFrom).data
                            ELSE form)
                    ELSE defaultValues
      newScenario == [id |-> uuidv4(scenarios), name |-> Len(scenarios) + 1,
                      data |-> baseData]
      updatedScenarios == SaveCurrent(scenarios, activeScenarioId, form)
  IN /\ scenarios' = Append(updatedScenarios, newScenario)
     /\ activeScenarioId' = newScenario.id
     /\ form' = newScenario.data
     /\ storage' = SaveEffect(scenarios')
     /\ event' = [handler |-> "handleScenarioAdd", id |-> cloneFrom, from |-> activeScenarioId]
     /\ UNCHANGED <<fn, args, ret, pc, month, balance, schedule, view, values,
                    results, calls, isLoading>>

\* the plus button and the copy buttons of the tabs
AddScenario ==
  /\ ~isLoading
  /\ Len(scenarios) < MaxScenarios
  /\ \E cloneFrom \in {0} \cup ScenarioIdsOf(scenarios) : handleScenarioAdd(cloneFrom)

\* handleScenarioDelete(id); with no scenario left updatedScenarios[0] is
\* undefined and the handler throws after setScenarios
handleScenarioDelete(id) ==
  LET updatedScenarios == FilterOut(scenarios, id)
  IN /\ scenarios' = updatedScenarios
     /\ storage' = SaveEffect(scenarios')
     /\ event' = [handler |-> "handleScenarioDelete", id |-> id, from |-> activeScenarioId]
     /\ UNCHANGED isLoading
     /\ IF id = activeScenarioId /\ updatedScenarios # <<>>
          THEN /\ activeScenarioId' = ActiveAfterDelete(activeScenarioId, id,
                                                        updatedScenarios)
               /\ form' = updatedScenarios[1].data
               /\ calculateMortgageOptions(updatedScenarios[1].data)
          ELSE /\ activeScenarioId' = activeScenarioId
               /\ UNCHANGED <<form, fn, args, ret, pc, month, balance, schedule,
                              view, values, results, calls>>

\* the delete button of a tab: handleDelete of ScenarioTabs
DeleteScenario ==
  /\ ~isLoading
  /\ pc # "loop"
  /\ CanDelete(scenarios)
  /\ \E id \in ScenarioIdsOf(scenarios) : handleScenarioDelete(id)

\* handleScenarioChange(id)
handleScenarioChange(id) ==
  /\ event' = [handler |-> "handleScenarioChange", id |-> id, from |-> activeScenarioId]
  /\ IF id \in ScenarioIdsOf(scenarios)
       THEN LET scenario == FindScenario(scenarios, id)
            IN /\ scenarios' = SaveCurrent(scenarios, activeScenarioId, form)
               /\ storage' = SaveEffect(scenarios')
               /\ activeScenarioId' = id
               /\ form' = scenario.data
               /\ calculateMortgageOptions(scenario.data)
               /\ UNCHANGED isLoading
       ELSE UNCHANGED <<fn, args, ret, pc, month, balance, schedule, view, values,
                        results, calls, scenarios, activeScenarioId, form,
                        isLoading, storage>>

\* a click on a tab, the active one included, or a call with an id that no
\* scenario has
ChangeScenario ==
  /\ ~isLoading
  /\ pc # "loop"
  /\ \E id \in {0} \cup ScenarioIdsOf(scenarios) : handleScenarioChange(id)

\* handleScenarioRename(id, newName), called by handleRename of the tabs
handleScenarioRename(id, newName) ==
  /\ scenarios' = [i \in 1..Len(scenarios) |->
                     IF scenarios[i].id = id
                       THEN [scenarios[i] EXCEPT !.name = newName]
                       ELSE scenarios[i]]
  /\ storage' = SaveEffect(scenarios')
  /\ event' = NoEvent
  /\ UNCHANGED <<fn, args, ret, pc, month, balance, schedule, view, values, results,
                 calls, activeScenarioId, form, isLoading>>

\* a tab renamed
RenameScenario ==
  /\ ~isLoading
  /\ \E id \in ScenarioIdsOf(scenarios) : handleScenarioRename(id, TypedName)

\* the Clear Saved Data button
ClearSavedData ==
  /\ ~isLoading
  /\ storage' = NoStorage
  /\ form' = defaultValues
  /\ results' = NoResults
  /\ event' = NoEvent
  /\ UNCHANGED <<fn, args, ret, pc, month, balance, schedule, view, values, calls,
                 scenarios, activeScenarioId, isLoading>>

Next ==
  \/ CallMonthlyPayment
  \/ CallRecastPayment
  \/ CallTotalInterest
  \/ CallBreakEvenMonths
  \/ CallSchedule
  \/ CallScheduleComputed
  \/ ScheduleIter
  \/ ScheduleReturn
  \/ RenderBreakEven

Spec == Init /\ [][Next]_vars

\* the loop of calculateAmortizationSchedule is not starved: a started call
\* runs to its return
FairSpec == Spec /\ WF_vars(ScheduleIter) /\ WF_vars(ScheduleReturn)

\* the component after the load from empty storage, before the first submit:
\* one scenario with the default values, results null, no engine call yet
ComponentInit ==
  /\ fn = "none"
  /\ args = NoArgs
  /\ ret = Absent
  /\ pc = "idle"
  /\ month = 0
  /\ balance = Zero
  /\ schedule = <<>>
  /\ view = NoView
  /\ values = defaultValues
  /\ results = NoResults
  /\ calls = <<>>
  /\ scenarios = <<[id |-> 1, name |-> 1, data |-> defaultValues]>>
  /\ activeScenarioId = 1
  /\ form = defaultValues
  /\ isLoading = FALSE
  /\ storage = SaveEffect(scenarios)
  /\ event = [handler |-> "load", id |-> 0, from |-> 0]

ComponentNext ==
  \/ SubmitValues
  \/ RenderBreakEven

\* the component: the form submitted again and again, the card rendered
ComponentSpec == ComponentInit /\ [][ComponentNext]_vars

\* the component as it is mounted, with empty local storage
ScenarioInit ==
  /\ fn = "none"
  /\ args = NoArgs
  /\ ret = Absent
  /\ pc = "idle"
  /\ month = 0
  /\ balance = Zero
  /\ schedule = <<>>
  /\ view = NoView
  /\ values = defaultValues
  /\ results = NoResults
  /\ calls = <<>>
  /\ Unmounted

ScenarioNext ==
  \/ LoadScenarios
  \/ Reload
  \/ EditForm
  \/ SubmitForm
  \/ AddScenario
  \/ DeleteScenario
  \/ ChangeScenario
  \/ RenameScenario
  \/ ClearSavedData

\* the scenarios of the component: loaded, edited, switched, saved, reloaded
ScenarioSpec == ScenarioInit /\ [][ScenarioNext]_vars

(***************************************************************************)
(* Properties                                                              *)
(***************************************************************************)
\* a call of calculateAmortizationSchedule has returned its schedule
ScheduleReturned == fn = "calculateAmortizationSchedule" /\ pc = "returned"

\* the sum of the interest fields, added up from the first entry on
RECURSIVE SumInterest(_)
SumInterest(s) ==
  IF s = <<>> THEN Zero
  ELSE Add(SumInterest(SubSeq(s, 1, Len(s) - 1)), s[Len(s)].interest)

\* the balance before the payment of entry i: the principal, less the
\* principal portions of the entries before i
RECURSIVE PreBalance(_, _, _)
PreBalance(s, p, i) ==
  IF i = 1 THEN p ELSE Sub(PreBalance(s, p, i - 1), s[i - 1].principal)

\* C1: calculateMonthlyPayment with annualRate = 0, principal >= 0 and
\* termMonths >= 1 returns the straight-line payment principal / termMonths.
C1_ZeroRateStraightLine ==
  (/\ fn = "calculateMonthlyPayment"
   /\ args.annualRate = Zero
   /\ Leq(Zero, args.principal)
   /\ args.termMonths >= 1)
  => ret = Div(args.principal, Num(args.termMonths))

\* C2: whenever the refinance payment is greater than or equal to the current
\* payment, the results view never reports that refinancing could be
\* worthwhile and never shows a finite positive break-even month count, for
\* every planned stay and every closing cost.
C2_NoSavingsNotWorthwhile ==
  (/\ view.rendered
   /\ Leq(args.currentMonthlyPayment, args.newMonthlyPayment))
  => /\ ~view.isWorthRefinancing
     /\ ~(IsFinite(view.breakEven) /\ Gt(view.breakEven, Zero))

C4_ScheduleTerminates ==
  /\ [](Len(schedule) <= args.termMonths)
  /\ (pc = "loop") ~> (pc = "returned")

\* a payment that never amortizes the loan: the schedule runs the full term
C4_Witness ==
  /\ ScheduleReturned
  /\ args.termMonths >= 2
  /\ Len(schedule) = args.termMonths
  /\ Gt(balance, args.principal)
  /\ Gt(args.principal, Zero)

\* C5: in every returned schedule every entry before the last has
\* remainingBalance > 0, only the last entry can have remainingBalance = 0,
\* and calculateTotalInterest adds the interest of exactly these periods.
C5_StopsAtFirstPayoff ==
  ScheduleReturned
  => /\ \A i \in 1..(Len(schedule) - 1) : Gt(schedule[i].remainingBalance, Zero)
     /\ \A i \in 1..Len(schedule) :
          schedule[i].remainingBalance = Zero => i = Len(schedule)
     /\ calculateTotalInterest(args.principal, args.annualRate, args.termMonths,
                               args.monthlyPayment) = SumInterest(schedule)

\* C6: every entry of a schedule has payment = the monthlyPayment argument,
\* principal + interest = payment, and interest = (the balance before the
\* payment) * (the monthly rate), the balance before entry k+1 being the
\* unclamped balance after entry k.
C6_EntrySplitsPayment ==
  fn = "calculateAmortizationSchedule"
  => \A i \in 1..Len(schedule) :
       /\ schedule[i].payment = args.monthlyPayment
       /\ Add(schedule[i].principal, schedule[i].interest) = schedule[i].payment
       /\ schedule[i].interest =
            Mul(PreBalance(schedule, args.principal, i),
                Div(args.annualRate, Num(1200)))

\* a schedule whose last payment is larger than what was owed
C6_Witness ==
  /\ ScheduleReturned
  /\ Len(schedule) >= 2
  /\ Lt(balance, Zero)
  /\ schedule[Len(schedule)].payment = args.monthlyPayment
  /\ Gt(schedule[Len(schedule)].interest, Zero)

\* C7: every entry of a returned schedule has remainingBalance >= 0, equal to
\* max(0, the balance after that period's payment).
C7_RemainingBalanceNonNegative ==
  ScheduleReturned
  => \A i \in 1..Len(schedule) :
       /\ Leq(Zero, schedule[i].remainingBalance)
       /\ schedule[i].remainingBalance =
            MathMax(Zero, PreBalance(schedule, args.principal, i + 1))

\* C8: the month fields of a schedule are 1, 2, ..., n in this order.
C8_MonthsSequential ==
  fn = "calculateAmortizationSchedule"
  => \A i \in 1..Len(schedule) : schedule[i].month = i

\* a returned schedule of several entries
C8_Witness ==
  /\ ScheduleReturned
  /\ Len(schedule) >= 3
  /\ schedule[Len(schedule)].month = Len(schedule)

\* C9: calculateRecastPayment(principal, rate, term, extraPayment) equals
\* calculateMonthlyPayment(principal - extraPayment, rate, term), an absent
\* extraPayment counting as 0.
C9_RecastDelegates ==
  fn = "calculateRecastPayment"
  => ret = calculateMonthlyPayment(
             Sub(args.principal,
                 IF args.extraPayment = Absent THEN Zero ELSE args.extraPayment),
             args.annualRate, args.termMonths)

\* a recast without extraPayment that returns the un-recast payment
C9_Witness ==
  /\ fn = "calculateRecastPayment"
  /\ args.extraPayment = Absent
  /\ IsFinite(ret)
  /\ Gt(ret, Zero)
  /\ ret = calculateMonthlyPayment(args.principal, args.annualRate, args.termMonths)

\* C10: for termMonths >= 1, rate > 0 and extraPayment > 0 the recast payment
\* is strictly less than calculateMonthlyPayment(principal, rate, term).
C10_RecastReducesPayment ==
  (/\ fn = "calculateRecastPayment"
   /\ args.termMonths >= 1
   /\ Gt(args.annualRate, Zero)
   /\ args.extraPayment # Absent
   /\ Gt(args.extraPayment, Zero))
  => Lt(ret, calculateMonthlyPayment(args.principal, args.annualRate,
                                     args.termMonths))

\* a recast with a lump sum larger than the principal
C10_Witness ==
  /\ fn = "calculateRecastPayment"
  /\ args.termMonths >= 1
  /\ Gt(args.annualRate, Zero)
  /\ args.extraPayment # Absent
  /\ Gt(args.extraPayment, args.principal)
  /\ Gt(args.principal, Zero)
  /\ Lt(ret, Zero)

\* monthlySavings of the last calculateBreakEvenMonths call
CallSavings == Sub(args.currentMonthlyPayment, args.newMonthlyPayment)

\* C11: for monthlySavings > 0 and refinanceCosts >= 0 calculateBreakEvenMonths
\* returns the least integer n with n * monthlySavings >= refinanceCosts.
C11_BreakEvenIsCeiling ==
  (/\ fn = "calculateBreakEvenMonths"
   /\ Gt(CallSavings, Zero)
   /\ Leq(Zero, args.refinanceCosts))
  => /\ IsFinite(ret)
     /\ ret[2] = 1
     /\ Leq(args.refinanceCosts, Mul(ret, CallSavings))
     /\ Lt(Mul(Sub(ret, One), CallSavings), args.refinanceCosts)

\* a partial month rounded up: 1120 / 100 = 11.2 gives 12
C11_Witness ==
  /\ fn = "calculateBreakEvenMonths"
  /\ args.refinanceCosts = Num(1120)
  /\ CallSavings = Num(100)
  /\ ret = Num(12)

\* C12: calculateBreakEvenMonths with refinanceCosts = 0 returns 0
\* months for every pair of current and new payments.
C12_ZeroCostsZeroMonths ==
  (fn = "calculateBreakEvenMonths" /\ args.refinanceCosts = Zero)
  => ret = Zero

\* C13: calculateBreakEvenMonths performs no guard: whenever monthlySavings <= 0
\* its result is non-positive or infinite, never a finite positive month count.
C13_NoSavingsNonPositiveOrInfinite ==
  (fn = "calculateBreakEvenMonths" /\ Leq(CallSavings, Zero))
  => \/ Leq(ret, Zero)
     \/ ret \in {PosInf, NegInf}

\* the sum of the principal fields, added up from the first entry on
RECURSIVE SumPrincipal(_)
SumPrincipal(s) ==
  IF s = <<>> THEN Zero
  ELSE Add(SumPrincipal(SubSeq(s, 1, Len(s) - 1)), s[Len(s)].principal)

\* the returned schedule was generated with the payment that
\* calculateMonthlyPayment gives for the same principal, rate and term
ScheduleOfComputedPayment ==
  /\ ScheduleReturned
  /\ args.monthlyPayment =
       calculateMonthlyPayment(args.principal, args.annualRate, args.termMonths)

\* C14: calculateMonthlyPayment returns a non-negative real number for every
\* principal >= 0, every rate in [0, 100) and every termMonths >= 1.
C14_PaymentNonNegativeReal ==
  (/\ fn = "calculateMonthlyPayment"
   /\ Leq(Zero, args.principal)
   /\ Leq(Zero, args.annualRate)
   /\ Lt(args.annualRate, Num(100))
   /\ args.termMonths >= 1)
  => /\ IsFinite(ret)
     /\ Leq(Zero, ret)

\* C15: when the supplied payment is smaller than the first period's interest
\* (principal > 0, rate > 0, termMonths >= 1) the schedule has exactly
\* termMonths entries, every principal portion is negative, remainingBalance
\* strictly grows from entry to entry and ends above the starting principal,
\* and calculateTotalInterest adds up the interest of all termMonths periods.
C15_UnderpaymentRunsFullTerm ==
  (/\ ScheduleReturned
   /\ Gt(args.principal, Zero)
   /\ Gt(args.annualRate, Zero)
   /\ args.termMonths >= 1
   /\ Lt(args.monthlyPayment,
         Mul(args.principal, ScheduleMonthlyRate(args.annualRate))))
  => /\ Len(schedule) = args.termMonths
     /\ \A i \in 1..Len(schedule) : Lt(schedule[i].principal, Zero)
     /\ \A i \in 1..(Len(schedule) - 1) :
          Lt(schedule[i].remainingBalance, schedule[i + 1].remainingBalance)
     /\ Gt(schedule[1].remainingBalance, args.principal)
     /\ Gt(schedule[Len(schedule)].remainingBalance, args.principal)
     /\ calculateTotalInterest(args.principal, args.annualRate,
                               args.termMonths, args.monthlyPayment)
          = SumInterest(schedule)

\* a payment below the first interest, over a term of several months
C15_Witness ==
  /\ ScheduleReturned
  /\ Gt(args.principal, Zero)
  /\ Gt(args.annualRate, Zero)
  /\ Gt(args.monthlyPayment, Zero)
  /\ Lt(args.monthlyPayment,
        Mul(args.principal, ScheduleMonthlyRate(args.annualRate)))
  /\ args.termMonths >= 3
  /\ Len(schedule) = args.termMonths

\* C16: for every valid (principal, rate, term) with the payment that
\* calculateMonthlyPayment computes, the principal portions of the whole
\* schedule add up to the principal within 1e-2.
C16_PrincipalPortionsSumToPrincipal ==
  (/\ ScheduleOfComputedPayment
   /\ Leq(Zero, args.principal)
   /\ Leq(Zero, args.annualRate)
   /\ Lt(args.annualRate, Num(100))
   /\ args.termMonths >= 1)
  => /\ IsFinite(SumPrincipal(schedule))
     /\ Leq(Sub(SumPrincipal(schedule), args.principal), Div(One, Num(100)))
     /\ Leq(Sub(args.principal, SumPrincipal(schedule)), Div(One, Num(100)))

IsNumber(x) ==
  /\ x # Absent
  /\ Len(x) = 2
  /\ x[1] \in Int
  /\ x[2] \in Nat
  /\ x[2] = 0 => x[1] \in {-1, 0, 1}

\* C19: no engine function fails on a numeric input: with termMonths = 0, an
\* extraPayment above the principal, a new payment not below the current one
\* or a payment too small, the call still returns a value: NaN, an infinite,
\* negative or zero number, or an empty or non-amortizing schedule.
C19_DegenerateInputsReturnValues ==
  /\ fn \in {"calculateMonthlyPayment", "calculateTotalInterest",
             "calculateRecastPayment", "calculateBreakEvenMonths"}
     => IsNumber(ret)
  /\ (fn \in {"calculateMonthlyPayment", "calculateRecastPayment"}
      /\ args.termMonths = 0)
     => IsNumber(ret) /\ ~IsFinite(ret)
  /\ (/\ fn = "calculateRecastPayment"
      /\ args.termMonths >= 1
      /\ Gt(args.annualRate, Zero)
      /\ args.extraPayment # Absent
      /\ Gt(args.extraPayment, args.principal))
     => IsNumber(ret) /\ IsFinite(ret) /\ Lt(ret, Zero)
  /\ (fn = "calculateTotalInterest" /\ args.termMonths = 0)
     => ret = Zero
  /\ (/\ fn = "calculateBreakEvenMonths"
      /\ Leq(args.currentMonthlyPayment, args.newMonthlyPayment))
     => IsNumber(ret) /\ (IsFinite(ret) => Leq(ret, Zero))
  /\ ScheduleReturned
     => /\ args.termMonths = 0 => schedule = <<>>
        /\ \A i \in 1..Len(schedule) :
             /\ IsNumber(schedule[i].payment)
             /\ IsNumber(schedule[i].principal)
             /\ IsNumber(schedule[i].interest)
             /\ IsNumber(schedule[i].remainingBalance)

\* termMonths = 0: the payment is not a finite number, yet it is returned
C19_Witness ==
  /\ fn = "calculateMonthlyPayment"
  /\ args.termMonths = 0
  /\ Gt(args.principal, Zero)
  /\ Gt(args.annualRate, Zero)
  /\ ret = PosInf

\* C20: the closing cost passed to calculateBreakEvenMonths is the sum of the
\* detailed fees when that sum is > 0 (even over a non-zero flat estimate),
\* otherwise the flat estimatedClosingCosts when it is non-zero, otherwise 3%
\* of currentBalance; and the closing cost displayed is that same value, as
\* the currency formatter prints it.
C20_ClosingCostPrecedence ==
  results # NoResults
  => LET fees == values.refinanceClosingCosts
         sum == Add(Add(Add(Add(OrZero(fees.titleInsurance),
                                OrZero(fees.appraisalFee)),
                            OrZero(fees.originationFee)),
                        OrZero(fees.recordingFees)),
                    OrZero(fees.otherFees))
         expected == IF Gt(sum, Zero) THEN sum
                     ELSE IF values.estimatedClosingCosts # Zero
                            THEN values.estimatedClosingCosts
                     ELSE Div(Mul(Num(3), values.currentBalance), Num(100))
     IN /\ args.refinanceCosts = expected
        /\ args.currentMonthlyPayment = values.monthlyPayment
        /\ results.breakEven =
             calculateBreakEvenMonths(expected, args.currentMonthlyPayment,
                                      args.newMonthlyPayment)
        /\ results.closingCosts = currencyFormatter(expected)
        /\ Leq(Sub(results.closingCosts, expected), Div(One, Num(200)))
        /\ Leq(Sub(expected, results.closingCosts), Div(One, Num(200)))

\* a fee breakdown that overrides a non-zero flat estimate
C20_Witness ==
  /\ results # NoResults
  /\ values.estimatedClosingCosts = Num(500)
  /\ values.refinanceClosingCosts.titleInsurance = Num(300)
  /\ values.refinanceClosingCosts.otherFees = Zero
  /\ args.refinanceCosts = Num(300)
  /\ results.closingCosts = Num(300)

\* C21: for every set of values that the form schema accepts,
\* calculateMortgageOptions never calls calculateRecastPayment with an
\* extraPayment above the principal and never passes a negative principal to
\* calculateMonthlyPayment, calculateTotalInterest or
\* calculateAmortizationSchedule.
C21_CallerKeepsLumpSumWithinBalance ==
  \A i \in 1..Len(calls) :
    /\ calls[i].fn = "calculateRecastPayment"
       => Leq(OrZero(calls[i].params.extraPayment), calls[i].params.principal)
    /\ calls[i].fn \in {"calculateMonthlyPayment", "calculateTotalInterest",
                        "calculateAmortizationSchedule"}
       => Leq(Zero, calls[i].params.principal)

\* the numbers of one schedule entry are finite
FiniteEntry(e) ==
  /\ IsFinite(e.payment)
  /\ IsFinite(e.principal)
  /\ IsFinite(e.interest)
  /\ IsFinite(e.remainingBalance)

\* C25: whenever calculateMortgageOptions produces non-null results from
\* values that the schema accepts, every monthly payment, total interest,
\* break-even count and schedule number in them is finite; otherwise results
\* is null and no engine function has been called.
C25_ValidationKeepsResultsFinite ==
  IF results = NoResults THEN calls = <<>>
  ELSE /\ IsFinite(results.currentMonthlyPayment)
       /\ IsFinite(results.currentTotalInterest)
       /\ IsFinite(results.refinanceMonthlyPayment)
       /\ IsFinite(results.refinanceTotalInterest)
       /\ IsFinite(results.breakEven)
       /\ IsFinite(results.recastMonthlyPayment)
       /\ IsFinite(results.recastTotalInterest)
       /\ \A i \in 1..Len(results.currentSchedule) :
            FiniteEntry(results.currentSchedule[i])
       /\ \A i \in 1..Len(results.refinanceSchedule) :
            FiniteEntry(results.refinanceSchedule[i])
       /\ \A i \in 1..Len(results.recastSchedule) :
            FiniteEntry(results.recastSchedule[i])

\* results.current.schedule.slice(0, 24)
ComparisonRows == 24

\* C26: for every result produced from schema-valid values the current
\* schedule is non-empty, and the refinance and the recast schedule have an
\* entry for each of the first min(24, length of the current schedule) rows
\* of the comparison table.
C26_ComparisonRowsExist ==
  results # NoResults
  => /\ Len(results.currentSchedule) >= 1
     /\ \A row \in 1..Len(results.currentSchedule) :
          row <= ComparisonRows
          => /\ row <= Len(results.refinanceSchedule)
             /\ row <= Len(results.recastSchedule)

\* C27: once the load effect has run the scenario list is never empty: the
\* tabs delete a scenario only while more than one is left.
C27_ScenarioListNeverEmpty == ~isLoading => Len(scenarios) >= 1

\* a delete that has left a single scenario
C27_Witness ==
  /\ event.handler = "handleScenarioDelete"
  /\ Len(scenarios) = 1

\* the scenarios of the list that have the id
ScenariosWithId(list, id) == {i \in 1..Len(list) : list[i].id = id}

\* C28: once loaded, activeScenarioId is the id of exactly one scenario of
\* the list. A delete of the active scenario makes the first remaining one
\* active, a delete of another scenario leaves the active id, and a switch to
\* an id that no scenario has changes nothing.
C28_ActiveIdentifiesOneScenario ==
  [][/\ ~isLoading' =>
          Cardinality(ScenariosWithId(scenarios', activeScenarioId')) = 1
     /\ event'.handler = "handleScenarioDelete" =>
          activeScenarioId' = IF event'.id = activeScenarioId
                                THEN FilterOut(scenarios, event'.id)[1].id
                                ELSE activeScenarioId
     /\ (/\ event'.handler = "handleScenarioChange"
         /\ event'.id \notin ScenarioIdsOf(scenarios)) =>
          UNCHANGED <<scenarios, activeScenarioId, form, results, storage>>]_vars

\* the active scenario has been deleted, another scenario is active now
C28_Witness ==
  /\ event.handler = "handleScenarioDelete"
  /\ event.id = event.from
  /\ activeScenarioId = scenarios[1].id
  /\ activeScenarioId # event.from

\* C23: a switch to another scenario of the list stores the form values in
\* the scenario that was active, changes no other scenario, makes the target
\* active and shows its data in the form; and no step changes the data of a
\* scenario that is not the active one, so that a switch from A to B and back
\* shows the values the form held when A was left.
C23_SwitchSavesThenLoads ==
  [][/\ (/\ event'.handler = "handleScenarioChange"
         /\ event'.id \in ScenarioIdsOf(scenarios)
         /\ event'.id # activeScenarioId) =>
          /\ Len(scenarios') = Len(scenarios)
          /\ \A i \in 1..Len(scenarios) :
               scenarios'[i] = IF scenarios[i].id = activeScenarioId
                                 THEN [scenarios[i] EXCEPT !.data = form]
                                 ELSE scenarios[i]
          /\ activeScenarioId' = event'.id
          /\ form' = FindScenario(scenarios, event'.id).data
     /\ \A i \in 1..Len(scenarios), j \in 1..Len(scenarios') :
          (/\ scenarios[i].id = scenarios'[j].id
           /\ scenarios[i].id # activeScenarioId) =>
            scenarios'[j].data = scenarios[i].data]_vars

\* a switch to another scenario: the form shows the values typed there, the
\* scenario that was left holds other values
C23_Witness ==
  /\ event.handler = "handleScenarioChange"
  /\ event.id \in ScenarioIdsOf(scenarios)
  /\ event.from \in ScenarioIdsOf(scenarios)
  /\ event.id # event.from
  /\ activeScenarioId = event.id
  /\ form \in TypedValues
  /\ FindScenario(scenarios, event.id).data = form
  /\ FindScenario(scenarios, event.from).data # form

\* C24: after handleScenarioAdd(cloneFrom) the list has one more scenario,
\* appended last and active, and its data equals the data the list holds for
\* the scenario cloneFrom.
C24_CopyEqualsSource ==
  [][(event'.handler = "handleScenarioAdd" /\ event'.id # 0) =>
       /\ Len(scenarios') = Len(scenarios) + 1
       /\ \A i \in 1..Len(scenarios) : scenarios'[i].id = scenarios[i].id
       /\ scenarios'[Len(scenarios')].id \notin ScenarioIdsOf(scenarios)
       /\ activeScenarioId' = scenarios'[Len(scenarios')].id
       /\ scenarios'[Len(scenarios')].data =
            FindScenario(scenarios', event'.id).data]_vars

\* C29: right after handleScenarioChange with the id of a scenario of the
\* list, handleScenarioAdd and handleScenarioDelete the form shows the data
\* that the list holds for the active scenario.
C29_FormShowsActiveScenario ==
  (\/ event.handler \in {"handleScenarioAdd", "handleScenarioDelete"}
   \/ (event.handler = "handleScenarioChange" /\ event.id \in ScenarioIdsOf(scenarios)))
  => form = FindScenario(scenarios, activeScenarioId).data

\* C30: results that are not null are the results calculateMortgageOptions
\* computes from the data of the active scenario.
C30_ResultsAreOfActiveScenario ==
  (~isLoading /\ results # NoResults)
  => results = MortgageOptions(FindScenario(scenarios, activeScenarioId).data).results

\* C22: once the load has finished local storage holds the scenario list as
\* it is, nothing is written while loading, and a load restores the stored
\* list with its first scenario active: a reload brings back the same ids,
\* names, data and order.
C22_ScenariosRoundTrip ==
  [][/\ ~isLoading' => storage' = [saved |-> TRUE, scenarios |-> scenarios']
     /\ isLoading' => storage' = storage
     /\ (event'.handler = "load" /\ storage.saved) =>
          /\ scenarios' = storage.scenarios
          /\ activeScenarioId' = scenarios'[1].id]_vars

====
